---- MODULE Spec2Model ----
(***************************************************************************)
(* Model of the Brainfuck interpreter of src/src/main.rs: lexical_analysis,*)
(* syntax_analysis (bracket validation + create_ast), interpreter_init,    *)
(* run_program / execute_instruction / read_input, and the pipeline of     *)
(* main.                                                                   *)
(*                                                                         *)
(* Spec     : main() on every source text of at most MaxLen characters.    *)
(* RunSpec  : syntax_analysis + run_program applied to token sequences of  *)
(*            RunPrograms and to Interpreter values drawn from             *)
(*            RunInterpreters (run_program takes the Interpreter as an     *)
(*            argument).                                                   *)
(***************************************************************************)
EXTENDS Integers, Sequences, FiniteSets, TLC

\* ------------------------------------------------------------------ bounds
\* longest source text fed to main() in Spec
MaxLen == 4
\* longest token sequence run in RunSpec besides the single loops
RunLen == 2
\* cap on the number of loop-body invocations of one run
MaxBodyRuns == 256
\* length of the longest stdin stream
MaxInput == 2

\* ------------------------------------------------------- program constants
MEMORY_SIZE == 30000
I32_MAX == 2147483647
I32_MIN == (-2147483647) - 1
U8_MAX == 255

\* ------------------------------------------------------------- data types
\* enum Command
Command ==
  {"Default", "IncDP", "DecDP", "IncByte", "DecByte", "OutByte", "InByte",
   "JumpForward", "JumpBackward"}

\* enum NodeType
NodeType == {"Program", "Loop", "Operator"}

\* struct Node
Node(t, c, ch) == [node_type |-> t, instruction |-> c, childrens |-> ch]

\* the characters a source text is made of: the eight symbols and one
\* representative of every other character
SourceChars == {">", "<", "+", "-", ".", ",", "[", "]", "x"}

\* the bytes the environment may supply on stdin
InputBytes == {0, 65, 200, 255}

\* --------------------------------------------------------------- lexer
\* the match of lexical_analysis: the command pushed for c, <<>> for `_ => {}`
LexCharSwapped(c) ==
  CASE c = ">" -> <<"DecDP">>
    [] c = "<" -> <<"IncDP">>
    [] c = "+" -> <<"IncByte">>
    [] c = "-" -> <<"DecByte">>
    [] c = "." -> <<"OutByte">>
    [] c = "," -> <<"InByte">>
    [] c = "[" -> <<"JumpForward">>
    [] c = "]" -> <<"JumpBackward">>
    [] OTHER -> <<>>

LexChar(c) ==
  CASE c = ">" -> <<"IncDP">>
    [] c = "<" -> <<"DecDP">>
    [] c = "+" -> <<"IncByte">>
    [] c = "-" -> <<"DecByte">>
    [] c = "." -> <<"OutByte">>
    [] c = "," -> <<"InByte">>
    [] c = "[" -> <<"JumpForward">>
    [] c = "]" -> <<"JumpBackward">>
    [] OTHER -> <<>>

RECURSIVE LexFrom(_, _, _)
LexFrom(chars, i, result) ==
  IF i > Len(chars) THEN result
  ELSE LexFrom(chars, i + 1, result \o LexChar(chars[i]))

\* fn lexical_analysis: Ok(result) for every input
lexical_analysis(chars) == LexFrom(chars, 1, <<>>)

\* --------------------------------------------------- bracket validation
IsBracket(cmd) == cmd = "JumpForward" \/ cmd = "JumpBackward"

\* the `filtered` iterator of syntax_analysis
Filtered(cmds) == SelectSeq(cmds, IsBracket)

\* stack.pop() on the validation stack: "None" when the stack is empty
StackPopDropsNone(stack) ==
  IF stack = <<>> THEN [popped |-> "Some", stack |-> <<>>]
  ELSE [popped |-> "Some", stack |-> SubSeq(stack, 1, Len(stack) - 1)]

StackPop(stack) ==
  IF stack = <<>> THEN [popped |-> "None", stack |-> <<>>]
  ELSE [popped |-> "Some", stack |-> SubSeq(stack, 1, Len(stack) - 1)]

\* the check made after the scan: `if !stack.is_empty()`
StackLeftOverIgnored(stack) == FALSE

StackLeftOver(stack) == stack # <<>>

\* the for loop over `filtered` and the final check: "ok" or the error text
RECURSIVE ValidateFrom(_, _, _)
ValidateFrom(f, i, stack) ==
  IF i > Len(f)
  THEN IF StackLeftOver(stack) THEN "missing bracket" ELSE "ok"
  ELSE IF f[i] = "JumpForward"
       THEN ValidateFrom(f, i + 1, Append(stack, "JumpForward"))
       ELSE LET r == StackPop(stack) IN
            IF r.popped = "None" THEN "missing bracket"
            ELSE ValidateFrom(f, i + 1, r.stack)

\* stage 1 of syntax_analysis
ValidateBrackets(cmds) == ValidateFrom(Filtered(cmds), 1, <<>>)

\* ------------------------------------------------------------------ state
VARIABLES
  pc,           \* position of main: "lex", "syntax", "ast", "init", "run",
                \* "done" (Ok(())), "error" (Err returned), "panic"
  source,       \* loaded_string
  commands,     \* Vec<Command> handed to syntax_analysis
  error,        \* the Err text main returns, "" while there is none
  building,     \* create_ast: the nodes of the active calls, outermost first
  pos,          \* create_ast: the shared cursor *index (0-based)
  program_ast,  \* the Node returned by syntax_analysis
  memory,       \* Interpreter.memory
  pointer,      \* Interpreter.pointer
  frames,       \* run_program: the active invocations, outermost first
  output,       \* the bytes written to stdout
  consumed,     \* the bytes read from stdin
  body_runs,    \* number of run_program invocations made by `while`
  accessed,     \* the subscript of the latest memory[..] expression evaluated
  logical,      \* floor-modulo of the net pointer displacement
  start         \* the Interpreter run_program was called with

vars ==
  <<pc, source, commands, error, building, pos, program_ast, memory, pointer,
    frames, output, consumed, body_runs, accessed, logical, start>>

parseVars == <<building, pos, program_ast>>
runVars ==
  <<memory, pointer, frames, output, consumed, body_runs, accessed, logical, start>>

\* a Vec<u8> of `len` cells; `cells` holds the nonzero ones
Vec(len, cells) == [len |-> len, cells |-> cells]
NoVec == Vec(0, <<>>)
NoNode == Node("Program", "Default", <<>>)

SeqsUpTo(S, n) == UNION {[1..k -> S] : k \in 0..n}

\* ------------------------------------------------------------ main: lexer
\* let commands = lexical_analysis(loaded_string)?
Lex ==
  /\ pc = "lex"
  /\ commands' = lexical_analysis(source)
  /\ pc' = "syntax"
  /\ UNCHANGED <<source, error, parseVars, runVars>>

\* ------------------------------------------- syntax_analysis, stage 1
\* the validation loop; on Err main returns it (`?`), else the root node is
\* made and create_ast is called with pos = 0
Validate ==
  /\ pc = "syntax"
  /\ LET r == ValidateBrackets(commands) IN
       IF r = "ok"
       THEN /\ pc' = "ast"
            /\ building' = <<Node("Program", "Default", <<>>)>>
            /\ pos' = 0
            /\ error' = error
       ELSE /\ pc' = "error"
            /\ error' = r
            /\ UNCHANGED <<building, pos>>
  /\ UNCHANGED <<source, commands, program_ast, runVars>>

\* -------------------------------------------------------------- create_ast
\* node.childrens.push(child) on the innermost active call
PushChildFront(stack, child) ==
  [stack EXCEPT ![Len(stack)].childrens = <<child>> \o @]

PushChild(stack, child) ==
  [stack EXCEPT ![Len(stack)].childrens = Append(@, child)]

\* the arm of `match cmd` in create_ast that cmd selects
MatchArmNoReturn(cmd) ==
  IF cmd = "JumpForward" THEN "JumpForward" ELSE "_"

MatchArm(cmd) ==
  IF cmd = "JumpForward" THEN "JumpForward"
  ELSE IF cmd = "JumpBackward" THEN "JumpBackward" ELSE "_"

\* the caller's part of a recursive create_ast call that forgets
\* node.childrens.push(new_node)
AstReturnNoPush(p) ==
  IF Len(building) > 1
  THEN /\ building' = SubSeq(building, 1, Len(building) - 1)
       /\ pos' = p + 1
       /\ UNCHANGED <<pc, program_ast>>
  ELSE /\ program_ast' = building[1]
       /\ building' = <<>>
       /\ pos' = p
       /\ pc' = "init"

\* the caller's part of a recursive create_ast call that forgets `*index += 1`
AstReturnNoAdvance(p) ==
  IF Len(building) > 1
  THEN /\ building' = PushChild(SubSeq(building, 1, Len(building) - 1),
                                building[Len(building)])
       /\ pos' = p
       /\ UNCHANGED <<pc, program_ast>>
  ELSE /\ program_ast' = building[1]
       /\ building' = <<>>
       /\ pos' = p
       /\ pc' = "init"

\* `return` of a create_ast call: the recursive call's caller pushes new_node
\* and runs its `*index += 1`; the outermost call returns to syntax_analysis
AstReturn(p) ==
  IF Len(building) > 1
  THEN /\ building' = PushChild(SubSeq(building, 1, Len(building) - 1),
                                building[Len(building)])
       /\ pos' = p + 1
       /\ UNCHANGED <<pc, program_ast>>
  ELSE /\ program_ast' = building[1]
       /\ building' = <<>>
       /\ pos' = p
       /\ pc' = "init"

\* one turn of the while loop of the innermost create_ast call
CreateAstStep ==
  /\ pc = "ast"
  /\ IF pos < Len(commands)
     THEN LET cmd == commands[pos + 1] IN
          CASE MatchArm(cmd) = "JumpForward" ->
                 /\ building' = Append(building, Node("Loop", "JumpForward", <<>>))
                 /\ pos' = pos + 1
                 /\ UNCHANGED <<pc, program_ast>>
            [] MatchArm(cmd) = "JumpBackward" -> AstReturn(pos)
            [] OTHER ->
                 /\ building' = PushChild(building, Node("Operator", cmd, <<>>))
                 /\ pos' = pos + 1
                 /\ UNCHANGED <<pc, program_ast>>
     ELSE AstReturn(pos)
  /\ UNCHANGED <<source, commands, error, runVars>>

\* ------------------------------------------------------------- interpreter
\* memory[i] of a Vec<u8> (i < len)
MemAt(m, i) == IF i \in DOMAIN m.cells THEN m.cells[i] ELSE 0

\* memory[i] = v
MemSet(m, i, v) ==
  [m EXCEPT !.cells =
     [j \in (IF v = 0 THEN DOMAIN m.cells \ {i} ELSE DOMAIN m.cells \cup {i}) |->
        IF j = i THEN v ELSE m.cells[j]]]

\* the bounds check of the Vec subscript
InBounds(m, i) == i >= 0 /\ i < m.len

\* Rust's % on i32: the remainder takes the sign of the dividend
Rem(a, b) == IF a >= 0 \/ a % b = 0 THEN a % b ELSE (a % b) - b

\* `as usize` of an i32: a negative value becomes 2^64 + x, which is beyond
\* the length of every Vec; I32_MAX stands for such a value
AsUsize(x) == IF x >= 0 THEN x ELSE I32_MAX

\* (((pointer % MEMORY_SIZE) + MEMORY_SIZE) % MEMORY_SIZE) as usize
TapeIndexTruncating(p) == AsUsize(Rem(p, MEMORY_SIZE))

TapeIndex(p) == AsUsize(Rem(Rem(p, MEMORY_SIZE) + MEMORY_SIZE, MEMORY_SIZE))

\* the index assignment after a loop body returned (old: the value `index`
\* held during the body)
ReindexStale(old, p) == old

Reindex(old, p) == TapeIndex(p)

\* arithmetic `+= 1` / `-= 1`: on overflow a build with overflow checks
\* panics and a build without them wraps
Outcome(ok, val) == [ok |-> ok, val |-> val]

IncU8(v) == IF v = U8_MAX THEN {Outcome(FALSE, v), Outcome(TRUE, 0)}
            ELSE {Outcome(TRUE, v + 1)}

DecU8Swapped(v) == IncU8(v)

DecU8(v) == IF v = 0 THEN {Outcome(FALSE, v), Outcome(TRUE, U8_MAX)}
            ELSE {Outcome(TRUE, v - 1)}

IncI32(v) == IF v = I32_MAX THEN {Outcome(FALSE, v), Outcome(TRUE, I32_MIN)}
             ELSE {Outcome(TRUE, v + 1)}

DecI32(v) == IF v = I32_MIN THEN {Outcome(FALSE, v), Outcome(TRUE, I32_MAX)}
             ELSE {Outcome(TRUE, v - 1)}

\* fn read_input: r is the result of stdin().read_exact(&mut buffer)
read_inputEofByte(r) == IF r.ok THEN r.val ELSE U8_MAX

read_input(r) == IF r.ok THEN r.val ELSE 0

\* `memory[index] as char` written by print!("{}"): the UTF-8 encoding of the
\* code point U+0000..U+00FF
PrintChar(v) == IF v < 128 THEN <<v>> ELSE <<192 + (v \div 64), 128 + (v % 64)>>

\* the condition of `while interpreter.memory[index] != 0`; first: the
\* evaluation made before the first iteration
LoopTestDoWhile(m, index, first) == first \/ MemAt(m, index) # 0

LoopTestIf(m, index, first) == first /\ MemAt(m, index) # 0

LoopTest(m, index, first) == MemAt(m, index) # 0

Frame(node, i, index) == [node |-> node, i |-> i, index |-> index]

Top == frames[Len(frames)]
\* the child the innermost run_program invocation visits next
AtChild == pc = "run" /\ Top.i <= Len(Top.node.childrens)
Child == Top.node.childrens[Top.i]
SetTop(fs, f) == [fs EXCEPT ![Len(fs)] = f]

Panic ==
  /\ pc' = "panic"
  /\ UNCHANGED <<memory, pointer, frames, output, consumed, body_runs, logical>>

\* fn interpreter_init
interpreter_init ==
  /\ pc = "init"
  /\ memory' = Vec(MEMORY_SIZE, <<>>)
  /\ pointer' = 0
  /\ logical' = 0
  /\ pc' = "call"
  /\ UNCHANGED <<source, commands, error, parseVars, frames, output, consumed,
                 body_runs, accessed, start>>

\* run_program(&mut interpreter, &program_ast) is called
RunCall ==
  /\ pc = "call"
  /\ frames' = <<Frame(program_ast, 1, 0)>>
  /\ start' = [memory |-> memory, pointer |-> pointer]
  /\ pc' = "run"
  /\ UNCHANGED <<source, commands, error, parseVars, memory, pointer, output,
                 consumed, body_runs, accessed, logical>>

\* fn execute_instruction(interpreter, cmd, index), then the next child
execute_instruction(cmd, index) ==
  LET next == SetTop(frames, Frame(Top.node, Top.i + 1, index)) IN
  CASE cmd = "IncDP" ->
         \E r \in IncI32(pointer) :
           IF r.ok
           THEN /\ pointer' = r.val
                /\ logical' = (logical + 1) % MEMORY_SIZE
                /\ frames' = next
                /\ UNCHANGED <<pc, memory, output, consumed, body_runs, accessed>>
           ELSE Panic /\ UNCHANGED accessed
    [] cmd = "DecDP" ->
         \E r \in DecI32(pointer) :
           IF r.ok
           THEN /\ pointer' = r.val
                /\ logical' = (logical - 1) % MEMORY_SIZE
                /\ frames' = next
                /\ UNCHANGED <<pc, memory, output, consumed, body_runs, accessed>>
           ELSE Panic /\ UNCHANGED accessed
    [] cmd \in {"IncByte", "DecByte"} ->
         /\ accessed' = index
         /\ IF ~InBounds(memory, index) THEN Panic
            ELSE \E r \in (IF cmd = "IncByte" THEN IncU8(MemAt(memory, index))
                           ELSE DecU8(MemAt(memory, index))) :
                   IF r.ok
                   THEN /\ memory' = MemSet(memory, index, r.val)
                        /\ frames' = next
                        /\ UNCHANGED <<pc, pointer, output, consumed, body_runs, logical>>
                   ELSE Panic
    [] cmd = "InByte" ->
         \* read_input(): the byte read, or 0 when read_exact fails
         /\ accessed' = index
         /\ IF ~InBounds(memory, index) THEN Panic
            ELSE /\ \/ \E b \in InputBytes :
                         /\ Len(consumed) < MaxInput
                         /\ consumed' = Append(consumed, b)
                         /\ memory' = MemSet(memory, index, read_input(Outcome(TRUE, b)))
                    \/ /\ consumed' = consumed
                       /\ memory' = MemSet(memory, index, read_input(Outcome(FALSE, 0)))
                 /\ frames' = next
                 /\ UNCHANGED <<pc, pointer, output, body_runs, logical>>
    [] cmd = "OutByte" ->
         /\ accessed' = index
         /\ IF ~InBounds(memory, index) THEN Panic
            ELSE /\ output' = output \o PrintChar(MemAt(memory, index))
                 /\ frames' = next
                 /\ UNCHANGED <<pc, memory, pointer, consumed, body_runs, logical>>
    [] OTHER ->
         /\ frames' = next
         /\ UNCHANGED <<pc, memory, pointer, output, consumed, body_runs, accessed, logical>>

\* the `while` of a Loop child, evaluated with `index`: run the body once
\* more, or go on to the next child
WhileStep(fs, index, first) ==
  /\ accessed' = index
  /\ IF ~InBounds(memory, index) THEN Panic
     ELSE IF LoopTest(memory, index, first)
     THEN /\ body_runs < MaxBodyRuns
          /\ body_runs' = body_runs + 1
          /\ frames' = Append(SetTop(fs, Frame(fs[Len(fs)].node, fs[Len(fs)].i, index)),
                              Frame(fs[Len(fs)].node.childrens[fs[Len(fs)].i], 1, 0))
          /\ UNCHANGED <<pc, memory, pointer, output, consumed, logical>>
     ELSE /\ frames' = SetTop(fs, Frame(fs[Len(fs)].node, fs[Len(fs)].i + 1, index))
          /\ UNCHANGED <<pc, memory, pointer, output, consumed, body_runs, logical>>

\* the closure of run_program on the next child: compute index, then match
RunVisit ==
  /\ AtChild
  /\ LET index == TapeIndex(pointer) IN
     CASE Child.node_type = "Loop" -> WhileStep(frames, index, TRUE)
       [] Child.node_type = "Operator" -> execute_instruction(Child.instruction, index)
       [] OTHER ->
            /\ frames' = SetTop(frames, Frame(Top.node, Top.i + 1, index))
            /\ UNCHANGED <<pc, memory, pointer, output, consumed, body_runs,
                           accessed, logical>>
  /\ UNCHANGED <<source, commands, error, parseVars, start>>

\* the active invocations once the innermost one has returned
CallerFramesReentered(fs) == Append(fs, fs[Len(fs) - 1])

CallerFrames(fs) == SubSeq(fs, 1, Len(fs) - 1)

\* for_each is exhausted and run_program returns: to main, or into the
\* `while` of the caller, which recomputes index and tests again
RunReturn ==
  /\ pc = "run"
  /\ Top.i > Len(Top.node.childrens)
  /\ IF Len(frames) = 1
     THEN /\ pc' = "done"
          /\ frames' = <<>>
          /\ UNCHANGED <<memory, pointer, output, consumed, body_runs, accessed, logical>>
     ELSE LET fs == CallerFrames(frames) IN
          WhileStep(fs, Reindex(fs[Len(fs)].index, pointer), FALSE)
  /\ UNCHANGED <<source, commands, error, parseVars, start>>

\* ---------------------------------------------------------- specifications
Init ==
  /\ pc = "lex"
  /\ source \in SeqsUpTo(SourceChars, MaxLen)
  /\ commands = <<>>
  /\ error = ""
  /\ building = <<>>
  /\ pos = 0
  /\ program_ast = NoNode
  /\ memory = NoVec
  /\ pointer = 0
  /\ frames = <<>>
  /\ output = <<>>
  /\ consumed = <<>>
  /\ body_runs = 0
  /\ accessed = -1
  /\ logical = 0
  /\ start = [memory |-> NoVec, pointer |-> 0]

Next ==
  \/ Lex
  \/ Validate
  \/ CreateAstStep
  \/ interpreter_init
  \/ RunCall
  \/ RunVisit
  \/ RunReturn

Spec == Init /\ [][Next]_vars

\* RunSpec: syntax_analysis and run_program on drawn arguments
\* the loops whose body is one Operator
SingleLoops ==
  {<<"JumpForward", c, "JumpBackward">> :
     c \in Command \ {"Default", "JumpForward", "JumpBackward"}}

\* the single loops inside another loop
NestedLoops == {<<"JumpForward">> \o l \o <<"JumpBackward">> : l \in SingleLoops}

\* the token sequences lexical_analysis can return, up to RunLen tokens, the
\* single loops and the nested loops
RunPrograms ==
  SeqsUpTo(Command \ {"Default"}, RunLen) \cup SingleLoops \cup NestedLoops

\* an Interpreter whose current cell holds n and whose right neighbour holds 7
DrawnInterpreter(p, n) ==
  [pointer |-> p,
   memory |-> MemSet(MemSet(Vec(MEMORY_SIZE, <<>>),
                            ((p % MEMORY_SIZE) + 1) % MEMORY_SIZE, 7),
                     p % MEMORY_SIZE, n)]

\* every cell value at pointer 0; the extreme cell values at the extreme
\* pointers
RunInterpreters ==
  {DrawnInterpreter(0, n) : n \in 0..U8_MAX}
    \cup {DrawnInterpreter(p, n) : p \in {-1, I32_MAX, I32_MIN}, n \in {0, 1, U8_MAX}}

\* the Interpreter argument of run_program
InterpreterDraw ==
  /\ pc = "init"
  /\ \E it \in RunInterpreters :
       /\ memory' = it.memory
       /\ pointer' = it.pointer
       /\ logical' = it.pointer % MEMORY_SIZE
  /\ pc' = "call"
  /\ UNCHANGED <<source, commands, error, parseVars, frames, output, consumed,
                 body_runs, accessed, start>>

RunInit ==
  /\ pc = "syntax"
  /\ source = <<>>
  /\ commands \in RunPrograms
  /\ error = ""
  /\ building = <<>>
  /\ pos = 0
  /\ program_ast = NoNode
  /\ memory = NoVec
  /\ pointer = 0
  /\ frames = <<>>
  /\ output = <<>>
  /\ consumed = <<>>
  /\ body_runs = 0
  /\ accessed = -1
  /\ logical = 0
  /\ start = [memory |-> NoVec, pointer |-> 0]

RunNext ==
  \/ Validate
  \/ CreateAstStep
  \/ InterpreterDraw
  \/ RunCall
  \/ RunVisit
  \/ RunReturn

RunSpec == RunInit /\ [][RunNext]_vars

\* ------------------------------------------------------------------ claims
\* nesting depth after the first k elements of a sequence, `open` and
\* `close` being its bracket symbols
RECURSIVE Depth(_, _, _, _)
Depth(seq, k, open, close) ==
  IF k = 0 THEN 0
  ELSE Depth(seq, k - 1, open, close)
         + (IF seq[k] = open THEN 1 ELSE IF seq[k] = close THEN -1 ELSE 0)

\* brackets are balanced: no prefix closes more than it opens, and the whole
\* sequence opens as many as it closes
BalancedSeq(seq, open, close) ==
  /\ \A k \in 0..Len(seq) : Depth(seq, k, open, close) >= 0
  /\ Depth(seq, Len(seq), open, close) = 0

Balanced(cmds) == BalancedSeq(cmds, "JumpForward", "JumpBackward")

\* syntax_analysis has returned
Returned == pc \notin {"lex", "syntax", "ast"}

\* C1: syntax_analysis returns Err("missing bracket") exactly for the token
\* sequences whose brackets are not balanced, and a Program root without
\* error for the balanced ones.
C1_MissingBracketIffUnbalanced ==
  /\ pc # "lex" /\ pc # "syntax" =>
       /\ pc = "error" <=> ~Balanced(commands)
       /\ pc = "error" <=> error = "missing bracket"
       /\ pc # "error" => error = ""
  /\ Returned /\ Balanced(commands) =>
       /\ program_ast.node_type = "Program"
       /\ program_ast.instruction = "Default"
       /\ pos = Len(commands)

C1_Witness ==
  /\ pc = "error"
  /\ error = "missing bracket"
  /\ commands = <<"IncByte", "JumpForward">>

\* the source text's brackets are balanced
SourceBalanced == BalancedSeq(source, "[", "]")

\* C2: a source text with unbalanced brackets ends in the syntax error with
\* no tree built, no instruction executed, nothing written and nothing read:
\* create_ast and run_program are never started.
C2_UnbalancedNeverBuildsOrRuns ==
  ~SourceBalanced =>
    /\ pc \in {"lex", "syntax", "error"}
    /\ pc = "error" => error = "missing bracket"
    /\ pc # "error" => ENABLED (Lex \/ Validate)
    /\ building = <<>>
    /\ program_ast = NoNode
    /\ memory = NoVec
    /\ frames = <<>>
    /\ output = <<>>
    /\ consumed = <<>>
    /\ body_runs = 0
    /\ accessed = -1

C2_Witness ==
  /\ source = <<"+", "[">>
  /\ pc = "error"
  /\ output = <<>>

\* the next child is the Operator `cmd`
AtOperator(cmd) ==
  AtChild /\ Child.node_type = "Operator" /\ Child.instruction = cmd

\* the innermost invocation has moved on to its next child
Advanced ==
  /\ pc' = "run"
  /\ Len(frames') = Len(frames)
  /\ frames'[Len(frames')].i = Top.i + 1

\* floor-modulo of the pointer: the effective tape index
FloorIndex(p) == p % MEMORY_SIZE

\* C3: IncrementCell leaves (v + 1) mod 256 and DecrementCell (v - 1) mod 256
\* in the current cell, for every v, and execution goes on with the next
\* instruction.
C3_CellArithmeticModular ==
  [][/\ AtOperator("IncByte") =>
          /\ Advanced
          /\ MemAt(memory', FloorIndex(pointer))
               = (MemAt(memory, FloorIndex(pointer)) + 1) % 256
     /\ AtOperator("DecByte") =>
          /\ Advanced
          /\ MemAt(memory', FloorIndex(pointer))
               = (MemAt(memory, FloorIndex(pointer)) - 1) % 256]_vars

\* the step evaluates a memory[..] subscript: a cell Operator, the first test
\* of a `while`, or the test made after a loop body returned
Accessing ==
  \/ AtOperator("IncByte") \/ AtOperator("DecByte")
  \/ AtOperator("InByte") \/ AtOperator("OutByte")
  \/ AtChild /\ Child.node_type = "Loop"
  \/ pc = "run" /\ ~AtChild /\ Len(frames) > 1

\* C4: every tape access of an Operator or of a loop test uses the
\* floor-modulo of the pointer current at that moment; that index lies in
\* [0, MEMORY_SIZE) in every state, and an access at pointer -1 uses the last
\* cell.
C4_AccessAtFloorModIndex ==
  [][/\ TapeIndex(pointer) \in 0..(MEMORY_SIZE - 1)
     /\ TapeIndex(pointer') \in 0..(MEMORY_SIZE - 1)
     /\ Accessing =>
          /\ accessed' = FloorIndex(pointer)
          /\ accessed' \in 0..(MEMORY_SIZE - 1)
          /\ pointer = -1 => accessed' = MEMORY_SIZE - 1]_vars

C4_Witness ==
  /\ commands = <<"DecDP", "OutByte">>
  /\ start.pointer = 0
  /\ pointer = -1
  /\ accessed = MEMORY_SIZE - 1
  /\ pc = "done"

\* C5: no pointer move is an error, and after any moves the effective tape
\* index is the floor-modulo of the net displacement, however large.
C5_PointerLogicallyUnbounded ==
  [][AtOperator("IncDP") \/ AtOperator("DecDP") =>
       /\ Advanced
       /\ TapeIndex(pointer') = logical']_vars

\* the step tests the condition of a loop
LoopTesting ==
  \/ AtChild /\ Child.node_type = "Loop"
  \/ pc = "run" /\ ~AtChild /\ Len(frames) > 1

\* the run_program invocation that holds the tested loop among its children
LoopOwner == IF AtChild THEN Len(frames) ELSE Len(frames) - 1

\* C6: a loop tests the cell at the current effective index before every
\* iteration, the first included: on zero the body is not run and the loop
\* is left, on nonzero the body is run once more from its first child.
C6_WhileSemantics ==
  [][LoopTesting =>
       LET cell == MemAt(memory, FloorIndex(pointer))
           loop == frames[LoopOwner].node.childrens[frames[LoopOwner].i]
       IN /\ cell = 0 =>
               /\ body_runs' = body_runs
               /\ Len(frames') = LoopOwner
               /\ frames'[LoopOwner].i = frames[LoopOwner].i + 1
          /\ cell # 0 =>
               /\ body_runs' = body_runs + 1
               /\ Len(frames') = LoopOwner + 1
               /\ frames'[LoopOwner].i = frames[LoopOwner].i
               /\ frames'[LoopOwner + 1].node = loop
               /\ frames'[LoopOwner + 1].i = 1
          /\ UNCHANGED <<memory, pointer, output, consumed>>]_vars

C6_Witness ==
  /\ commands = <<"JumpForward", "IncByte", "JumpBackward">>
  /\ MemAt(start.memory, FloorIndex(start.pointer)) = 0
  /\ pc = "done"
  /\ body_runs = 0
  /\ memory = start.memory

\* the program `[-]`
ClearLoop == <<"JumpForward", "DecByte", "JumpBackward">>

\* the value the current cell held when run_program was called
StartCell == MemAt(start.memory, FloorIndex(start.pointer))

\* C7: `[-]` on a cell holding N runs its body exactly N times and then
\* terminates with that cell at 0 and the pointer and every other cell
\* unchanged. (While it runs, the iterations begun plus the value left in the
\* cell add up to N, so it cannot run more than N times.)
C7_ClearLoopRunsNTimes ==
  commands = ClearLoop /\ pc \in {"run", "done", "panic"} =>
    LET idx == FloorIndex(start.pointer)
        cell == MemAt(memory, idx)
        inBody == Len(frames) = 2 /\ Top.i = 1
    IN /\ pc # "panic"
       /\ pointer = start.pointer
       /\ memory = MemSet(start.memory, idx, cell)
       /\ body_runs + cell = StartCell + (IF inBody THEN 1 ELSE 0)
       /\ body_runs <= StartCell
       /\ pc = "done" => cell = 0 /\ body_runs = StartCell
       /\ pc = "run" => ENABLED (RunVisit \/ RunReturn)

C7_Witness ==
  /\ commands = ClearLoop
  /\ StartCell = U8_MAX
  /\ pc = "done"
  /\ body_runs = U8_MAX
  /\ MemAt(memory, FloorIndex(pointer)) = 0

\* the program `[]`
EmptyLoop == <<"JumpForward", "JumpBackward">>

\* C8: `[]` on a nonzero cell never terminates: every step of the run stays
\* inside the loop and leaves tape, pointer and output unchanged, so the end
\* of the loop is never reached.
C8_EmptyLoopNeverLeft ==
  [][commands = EmptyLoop /\ pc = "run" /\ StartCell # 0 =>
       /\ pc' = "run"
       /\ Len(frames') = 2
       /\ frames'[1].i = 1
       /\ frames'[2].node = frames[1].node.childrens[1]
       /\ UNCHANGED <<memory, pointer, output, consumed>>]_vars

C8_Witness ==
  /\ commands = EmptyLoop
  /\ StartCell # 0
  /\ pc = "run"
  /\ body_runs = MaxBodyRuns
  /\ memory = start.memory

\* C9: InputByte consumes one byte of stdin and stores it in the current
\* cell, or stores 0 when the stream is exhausted or the read fails, and
\* execution goes on; `,.` outputs `A` on input 65 and the null byte on empty
\* input.
C9_InputByteOrZero ==
  [][/\ AtOperator("InByte") =>
          /\ Advanced
          /\ \/ /\ Len(consumed') = Len(consumed) + 1
                /\ SubSeq(consumed', 1, Len(consumed)) = consumed
                /\ MemAt(memory', FloorIndex(pointer)) = consumed'[Len(consumed')]
             \/ /\ consumed' = consumed
                /\ MemAt(memory', FloorIndex(pointer)) = 0
     /\ source = <<",", ".">> /\ pc' = "done" =>
          /\ consumed' = <<65>> => output' = <<65>>
          /\ consumed' = <<>> => output' = <<0>>]_vars

C9_Witness ==
  /\ source = <<",", ".">>
  /\ pc = "done"
  /\ consumed = <<>>
  /\ output = <<0>>

\* C10: each executed OutputByte appends exactly the byte of the current
\* cell to the output stream, for every cell value, and no other step writes
\* to it.
C10_OutputIsTheCellByte ==
  [][IF AtOperator("OutByte")
     THEN output' = Append(output, MemAt(memory, FloorIndex(pointer)))
     ELSE output' = output]_vars

\* number of nodes of type t below node n
RECURSIVE CountNodes(_, _), CountIn(_, _, _)
CountNodes(n, t) == CountIn(n.childrens, Len(n.childrens), t)
CountIn(ch, k, t) ==
  IF k = 0 THEN 0
  ELSE CountIn(ch, k - 1, t)
         + (IF ch[k].node_type = t THEN 1 ELSE 0) + CountNodes(ch[k], t)

\* number of elements of seq that are in the set S
Occurrences(seq, S) == Cardinality({k \in 1..Len(seq) : seq[k] \in S})

Operators == Command \ {"Default", "JumpForward", "JumpBackward"}

\* syntax_analysis has returned Ok(program_ast)
Parsed == pc \in {"init", "call", "run", "done", "panic"}

\* C11: the tree returned for a balanced token sequence has as many Operator
\* nodes as the sequence has non-bracket tokens and as many Loop nodes as it
\* has LoopStart tokens.
C11_NodeCounts ==
  Parsed =>
    /\ CountNodes(program_ast, "Operator") = Occurrences(commands, Operators)
    /\ CountNodes(program_ast, "Loop") = Occurrences(commands, {"JumpForward"})
    /\ CountNodes(program_ast, "Program") = 0

C11_Witness ==
  /\ pc = "init"
  /\ commands = <<"JumpForward", "IncByte", "JumpBackward", "OutByte">>
  /\ CountNodes(program_ast, "Operator") = 2
  /\ CountNodes(program_ast, "Loop") = 1

\* the instruction of each of the eight symbols
SymbolTable ==
  [c \in {">", "<", "+", "-", ".", ",", "[", "]"} |->
     CASE c = ">" -> "IncDP" [] c = "<" -> "DecDP"
       [] c = "+" -> "IncByte" [] c = "-" -> "DecByte"
       [] c = "." -> "OutByte" [] c = "," -> "InByte"
       [] c = "[" -> "JumpForward" [] c = "]" -> "JumpBackward"]

IsSymbol(c) == c \in DOMAIN SymbolTable

\* C12: lexical_analysis never fails and returns, in order, the instruction
\* of every character of the source that is one of the eight symbols, and
\* nothing else; so the result is no longer than the source and is empty for
\* the empty source.
C12_LexerFilterMap ==
  pc # "lex" =>
    LET kept == SelectSeq(source, IsSymbol) IN
    /\ Len(commands) = Len(kept)
    /\ \A k \in 1..Len(kept) : commands[k] = SymbolTable[kept[k]]
    /\ Len(commands) <= Len(source)
    /\ source = <<>> => commands = <<>>

C12_Witness ==
  /\ pc = "syntax"
  /\ source = <<"x", "<", "x", ">">>
  /\ commands = <<"DecDP", "IncDP">>

\* every node of the sequence ch is a Loop or an Operator, an Operator holds
\* one of the six non-bracket instructions and has no children, and the
\* children of a Loop are such nodes again
RECURSIVE WellFormed(_, _)
WellFormed(ch, k) ==
  k = 0 \/
    /\ WellFormed(ch, k - 1)
    /\ \/ /\ ch[k].node_type = "Operator"
          /\ ch[k].instruction \in Operators
          /\ ch[k].childrens = <<>>
       \/ /\ ch[k].node_type = "Loop"
          /\ ch[k].instruction = "JumpForward"
          /\ WellFormed(ch[k].childrens, Len(ch[k].childrens))

\* C16: in the tree syntax_analysis returns, the root is the one Program
\* node, every other node is a Loop or an Operator, each Operator holds one
\* of the six non-bracket instructions and has no children, and no node
\* stands for a LoopEnd.
C16_TreeShape ==
  Parsed =>
    /\ program_ast.node_type = "Program"
    /\ program_ast.instruction = "Default"
    /\ WellFormed(program_ast.childrens, Len(program_ast.childrens))
    /\ CountNodes(program_ast, "Operator") + CountNodes(program_ast, "Loop")
         = Len(commands) - Occurrences(commands, {"JumpBackward"})

C16_Witness ==
  /\ pc = "init"
  /\ commands = <<"JumpForward", "JumpForward", "JumpBackward", "JumpBackward">>
  /\ program_ast
       = Node("Program", "Default",
              <<Node("Loop", "JumpForward", <<Node("Loop", "JumpForward", <<>>)>>)>>)

\* the token sequence a sequence of nodes stands for: an Operator is its
\* instruction, a Loop is LoopStart, its children, LoopEnd
RECURSIVE Flatten(_, _)
Flatten(ch, k) ==
  IF k = 0 THEN <<>>
  ELSE Flatten(ch, k - 1)
         \o (IF ch[k].node_type = "Loop"
             THEN <<"JumpForward">> \o Flatten(ch[k].childrens, Len(ch[k].childrens))
                    \o <<"JumpBackward">>
             ELSE <<ch[k].instruction>>)

\* C19: the in-order flattening of the returned tree is the token sequence
\* it was built from: parsing loses and reorders nothing.
C19_FlattenIsTokens ==
  Parsed => Flatten(program_ast.childrens, Len(program_ast.childrens)) = commands

C19_Witness ==
  /\ pc = "init"
  /\ commands = <<"IncDP", "JumpForward", "DecByte", "JumpBackward">>
  /\ Flatten(program_ast.childrens, 2) = commands
  /\ program_ast.childrens[2].childrens = <<Node("Operator", "DecByte", <<>>)>>

\* C20: while create_ast runs on a balanced sequence, the cursor advances by
\* one token per turn; the number of active calls is one more than the
\* bracket depth at the cursor, so a recursive call ends on the LoopEnd that
\* matches its LoopStart and consumes it, the outermost call never meets a
\* LoopEnd, and it returns only with the cursor at the end of the sequence.
C20_CursorForwardOnce ==
  [][pc = "ast" =>
       /\ pos <= Len(commands)
       /\ Len(building) = 1 + Depth(commands, pos, "JumpForward", "JumpBackward")
       /\ Len(building) = 1 /\ pos < Len(commands) => commands[pos + 1] # "JumpBackward"
       /\ Len(building) > 1 => pos < Len(commands)
       /\ Len(building') < Len(building) /\ pc' = "ast" =>
            /\ commands[pos + 1] = "JumpBackward"
            /\ Len(building') = Len(building) - 1
       /\ pc' = "ast" => pos' = pos + 1
       /\ pc' # "ast" =>
            /\ pc' = "init"
            /\ Len(building) = 1
            /\ pos = Len(commands)
            /\ pos' = pos]_vars

C20_Witness ==
  /\ pc = "ast"
  /\ commands = <<"JumpForward", "IncByte", "JumpBackward", "OutByte">>
  /\ pos = 3
  /\ Len(building) = 1
  /\ Len(building[1].childrens) = 1

\* HelloSpec: main() on the "Hello" program; main runs to its end, so the
\* next step is always taken
HelloSource ==
  <<
    "+", "+", "+", "+", "+", "+", "+", "+", "[", ">", "+", "+",
    "+", "+", "[", ">", "+", "+", ">", "+", "+", "+", ">", "+",
    "+", "+", ">", "+", "<", "<", "<", "<", "-", "]", ">", "+",
    ">", "+", ">", "-", ">", ">", "+", "[", "<", "]", "<", "-",
    "]", ">", ">", ".", ">", "-", "-", "-", ".", "+", "+", "+",
    "+", "+", "+", "+", ".", ".", "+", "+", "+", ".">>

HelloInit ==
  /\ pc = "lex"
  /\ source = HelloSource
  /\ commands = <<>>
  /\ error = ""
  /\ building = <<>>
  /\ pos = 0
  /\ program_ast = NoNode
  /\ memory = NoVec
  /\ pointer = 0
  /\ frames = <<>>
  /\ output = <<>>
  /\ consumed = <<>>
  /\ body_runs = 0
  /\ accessed = -1
  /\ logical = 0
  /\ start = [memory |-> NoVec, pointer |-> 0]

HelloSpec == HelloInit /\ [][Next]_vars /\ WF_vars(Next)

\* the bytes of "Hello"
HelloBytes == <<72, 101, 108, 108, 111>>

\* C13: the "Hello" program, run from an all-zero tape with pointer 0,
\* terminates, and its complete output is the five bytes 72, 101, 108, 108,
\* 111.
C13_HelloOutput ==
  /\ <>(pc = "done" /\ output = HelloBytes)
  /\ [](pc # "panic" /\ pc # "error")
  /\ [](Len(output) <= 5 /\ output = SubSeq(HelloBytes, 1, Len(output)))
  /\ [](pc = "run" => start = [memory |-> Vec(MEMORY_SIZE, <<>>), pointer |-> 0])

C13_Witness ==
  /\ source = HelloSource
  /\ pc = "done"
  /\ output = HelloBytes

\* the token sequence has no bracket, so the tree has no Loop node
LoopFree == \A k \in 1..Len(commands) : ~IsBracket(commands[k])

\* C14: the executor terminates exactly when the root's children are
\* exhausted and no loop is pending; a program without loops terminates after
\* executing each Operator exactly once, in source order, for any input.
C14_TerminatesWhenExhausted ==
  [][pc = "run" =>
       /\ pc' = "done" <=> Len(frames) = 1 /\ ~AtChild
       /\ LoopFree =>
            /\ Len(frames) = 1
            /\ IF AtChild
               THEN /\ Child.instruction = commands[Top.i]
                    /\ Advanced
               ELSE /\ Top.i = Len(commands) + 1
                    /\ pc' = "done"]_vars

\* ---- the jump semantics documented on Command::JumpForward / JumpBackward
BracketDepth(cmds, k) == Depth(cmds, k, "JumpForward", "JumpBackward")

\* position of the `]` matching the `[` at position k
MatchingEnd(cmds, k) ==
  CHOOSE j \in (k + 1)..Len(cmds) :
    /\ BracketDepth(cmds, j) = BracketDepth(cmds, k - 1)
    /\ \A h \in (k + 1)..(j - 1) : BracketDepth(cmds, h) # BracketDepth(cmds, k - 1)

\* position of the `[` matching the `]` at position k
MatchingStart(cmds, k) ==
  CHOOSE j \in 1..(k - 1) : cmds[j] = "JumpForward" /\ MatchingEnd(cmds, j) = k

\* the instruction pointer after the command at ip, the current cell
\* holding `cell`
FlatNext(cmds, ip, cell) ==
  IF cmds[ip] = "JumpForward" /\ cell = 0 THEN MatchingEnd(cmds, ip) + 1
  ELSE IF cmds[ip] = "JumpBackward" /\ cell # 0 THEN MatchingStart(cmds, ip) + 1
  ELSE ip + 1

\* ---- the position of the tree walk in the token sequence
\* position of the first token of the body of invocation k
RECURSIVE BodyStart(_, _)
\* position of the token the invocation k is at: its child i, or the end of
\* its body
TokenAt(fs, k) ==
  BodyStart(fs, k) + Len(Flatten(fs[k].node.childrens, fs[k].i - 1))
BodyStart(fs, k) == IF k = 1 THEN 1 ELSE TokenAt(fs, k - 1) + 1

Ip(fs) == TokenAt(fs, Len(fs))

\* C15: the tree walk is the jump semantics on the token sequence: each step
\* of run_program executes the command at the instruction pointer of a flat
\* interpreter and moves to the flat interpreter's next instruction pointer,
\* brackets change no data, and the walk returns exactly when the instruction
\* pointer is past the last command.
C15_TreeWalkIsJumpSemantics ==
  [][pc = "run" =>
       LET ip == Ip(frames)
           cell == MemAt(memory, FloorIndex(pointer))
       IN /\ ip \in 1..(Len(commands) + 1)
          /\ pc' = "done" <=> ip = Len(commands) + 1
          /\ ip <= Len(commands) =>
               /\ IF AtChild
                  THEN commands[ip] = Child.instruction
                  ELSE commands[ip] = "JumpBackward"
               /\ pc' = "run" => Ip(frames') = FlatNext(commands, ip, cell)
               /\ IsBracket(commands[ip]) =>
                    /\ pc' = "run"
                    /\ UNCHANGED <<memory, pointer, output, consumed>>]_vars

C15_Witness ==
  /\ commands = <<"JumpForward", "JumpForward", "DecByte", "JumpBackward", "JumpBackward">>
  /\ pc = "run"
  /\ Len(frames) = 3
  /\ ~AtChild
  /\ Ip(frames) = 4
  /\ body_runs = 3

\* b is a + 1 (written so that no sum leaves the i32 range)
IsSucc(a, b) == a < b /\ b - a = 1

\* the tapes m and n agree on every cell but i
SameBut(m, n, i) == MemSet(m, i, 0) = MemSet(n, i, 0)

\* C17: each instruction changes only its own part of the state: a pointer
\* move changes the pointer by exactly +1 / -1 and no cell; IncrementCell,
\* DecrementCell and InputByte change at most the cell at the current
\* effective index and not the pointer; OutputByte changes neither; the tape
\* keeps its length and the tree is not modified during execution.
C17_FrameEffects ==
  [][pc = "run" =>
       /\ memory.len = MEMORY_SIZE /\ memory'.len = MEMORY_SIZE
       /\ program_ast' = program_ast
       /\ frames[1].node = program_ast
       /\ AtOperator("IncDP") => IsSucc(pointer, pointer') /\ memory' = memory
       /\ AtOperator("DecDP") => IsSucc(pointer', pointer) /\ memory' = memory
       /\ AtOperator("IncByte") \/ AtOperator("DecByte") \/ AtOperator("InByte") =>
            /\ pointer' = pointer
            /\ SameBut(memory', memory, FloorIndex(pointer))
       /\ AtOperator("OutByte") => pointer' = pointer /\ memory' = memory]_vars

\* the deepest bracket nesting of the token sequence
MaxNesting(cmds) ==
  LET depths == {BracketDepth(cmds, k) : k \in 0..Len(cmds)} IN
  CHOOSE d \in depths : \A e \in depths : e <= d

\* C18: the number of active run_program invocations never exceeds one plus
\* the deepest bracket nesting of the source, however many iterations the
\* loops make.
C18_DepthBoundedByNesting ==
  pc = "run" => Len(frames) <= 1 + MaxNesting(commands)

C18_Witness ==
  /\ pc = "run"
  /\ MaxNesting(commands) = 2
  /\ Len(frames) = 3
  /\ body_runs >= 200

====
